---- MODULE Spec2Model ----
(***************************************************************************)
(* Model of the wilayah-aceh ETL server: the code deriver                  *)
(* (transformProperties), the upsert into m_wilayah_poligon, the ETL       *)
(* route POST /api/db/sync and the map route GET /api/db/geojson.          *)
(*                                                                         *)
(* JavaScript strings are sequences of one-character strings, so that      *)
(* slice, substring, startsWith, template literals and SQL LIKE are        *)
(* computed as the code computes them.                                     *)
(***************************************************************************)
EXTENDS Integers, Sequences, FiniteSets, TLC

\* ---------------------------------------------------------------- bounds
\* longest raw kd_kecamatan drawn for the code deriver
MaxKecLen == 4

\* the longest result set handed to toFeatureCollection alone
MaxRows == 2

\* --------------------------------------------------------- JS primitives
Dot == <<".">>

\* a JavaScript value: a string, or undefined
Str(s) == [t |-> "string", v |-> s]

Undefined == [t |-> "undefined", v |-> <<>>]

\* p.key : the value of the key, undefined when the bag has no such key
Prop(p, k) == IF k \in DOMAIN p THEN Str(p[k]) ELSE Undefined

\* `${x}` : undefined is spelled out
TemplateStr(x) == IF x.t = "undefined"
               THEN <<"u", "n", "d", "e", "f", "i", "n", "e", "d">>
               ELSE x.v

\* s.slice(-3), a wrong width for the kecamatan rule
SliceLast3(s) == IF Len(s) > 3 THEN SubSeq(s, Len(s) - 2, Len(s)) ELSE s

\* s.slice(-2) : the last two characters, the whole string when shorter
SliceLast2(s) == IF Len(s) > 2 THEN SubSeq(s, Len(s) - 1, Len(s)) ELSE s

\* the leaf code without the literal prefix
kelCodeBare(p) == TemplateStr(Prop(p, "kd_kelurahan"))

\* `2${p.kd_kelurahan}`
kelCode(p) == <<"2">> \o TemplateStr(Prop(p, "kd_kelurahan"))

\* the outcome of a call: a returned {kode, nama} or a thrown error
Returned(kode, nama) == [threw |-> FALSE, kode |-> kode, nama |-> nama]

Thrown == [threw |-> TRUE, kode |-> Undefined, nama |-> Undefined]

\* level 2 with the codes padded to two characters
kode2Padded(p) ==
    SliceLast2(TemplateStr(Prop(p, "kd_propinsi"))) \o Dot
        \o SliceLast2(TemplateStr(Prop(p, "kd_dati2")))

\* `${p.kd_propinsi}.${p.kd_dati2}`
kode2(p) == TemplateStr(Prop(p, "kd_propinsi")) \o Dot \o TemplateStr(Prop(p, "kd_dati2"))

\* p.kd_kecamatan.slice(-2) throws a TypeError on undefined
transformProperties(feature, level) ==
    LET p == feature.properties IN
    CASE level = 1 ->
           Returned(Prop(p, "kd_propinsi"), Prop(p, "nm_propinsi"))
      [] level = 2 ->
           Returned(Str(kode2(p)), Prop(p, "nm_dati2"))
      [] level = 3 ->
           IF Prop(p, "kd_kecamatan").t = "undefined" THEN Thrown
           ELSE Returned(Str(kode2(p) \o Dot \o SliceLast2(p["kd_kecamatan"])),
                         Prop(p, "nm_kecamatan"))
      [] level = 4 ->
           IF Prop(p, "kd_kecamatan").t = "undefined" THEN Thrown
           ELSE Returned(Str(kode2(p) \o Dot \o SliceLast2(p["kd_kecamatan"])
                               \o Dot \o kelCode(p)),
                         Prop(p, "nm_kelurahan"))
      [] OTHER -> Returned(Str(<<>>), Str(<<>>))

\* ------------------------------------------------------------- geometry
\* ST_Force2D : drop any non-horizontal coordinate dimension
ST_Force2D(g) == [g EXCEPT !.dims = 2]

\* ST_SimplifyPreserveTopology(g, 0.0001) : the vertices within the
\* tolerance are dropped, the shape stays
ST_SimplifyPreserveTopology(g) == [g EXCEPT !.detail = "coarse"]

\* ST_Multi : a single-part geometry becomes multi-part
ST_Multi(g) == [g EXCEPT !.type = "MultiPolygon"]

\* the geometry expression of the INSERT
StoredGeometry(g) == ST_Multi(ST_SimplifyPreserveTopology(ST_Force2D(g)))

\* two raw geometries of a source file
GeomA == [type |-> "Polygon", dims |-> 3, shape |-> "a", detail |-> "fine"]

GeomB == [type |-> "MultiPolygon", dims |-> 2, shape |-> "b", detail |-> "coarse"]

\* ---------------------------------------------------------------- store
\* INSERT that never takes the conflict branch
UpsertAlwaysInsert(rows, kode, nama, level, g, t) ==
    rows \cup {[kode |-> kode, nama |-> nama, level |-> level,
                geometry |-> StoredGeometry(g), created_at |-> t, updated_at |-> t]}

\* ON CONFLICT DO NOTHING
UpsertDoNothing(rows, kode, nama, level, g, t) ==
    IF \E r \in rows : r.kode = kode THEN rows
    ELSE rows \cup {[kode |-> kode, nama |-> nama, level |-> level,
                     geometry |-> StoredGeometry(g), created_at |-> t, updated_at |-> t]}

\* the conflict branch rewrites the whole row
UpsertReplaceRow(rows, kode, nama, level, g, t) ==
    {r \in rows : r.kode # kode}
        \cup {[kode |-> kode, nama |-> nama, level |-> level,
               geometry |-> StoredGeometry(g), created_at |-> t, updated_at |-> t]}

\* the statement empties the table before it inserts
UpsertTruncate(rows, kode, nama, level, g, t) ==
    {[kode |-> kode, nama |-> nama, level |-> level,
      geometry |-> StoredGeometry(g), created_at |-> t, updated_at |-> t]}

\* INSERT INTO m_wilayah_poligon ... ON CONFLICT (kode_wilayah_kemendagri)
\* DO UPDATE SET nama, geometry, updated_at : one atomic statement
Upsert(rows, kode, nama, level, g, t) ==
    IF \E r \in rows : r.kode = kode
    THEN {IF r.kode = kode
          THEN [r EXCEPT !.nama = nama, !.geometry = StoredGeometry(g), !.updated_at = t]
          ELSE r : r \in rows}
    ELSE rows \cup {[kode |-> kode, nama |-> nama, level |-> level,
                     geometry |-> StoredGeometry(g), created_at |-> t, updated_at |-> t]}

\* --------------------------------------------------------- string helpers
\* file.startsWith(code)
StartsWith(s, p) == Len(p) <= Len(s) /\ SubSeq(s, 1, Len(p)) = p

\* file.endsWith(suffix)
EndsWith(s, x) == Len(x) <= Len(s) /\ SubSeq(s, Len(s) - Len(x) + 1, Len(s)) = x

\* \d
IsDigit(c) == c \in {"0", "1", "2", "3", "4", "5", "6", "7", "8", "9"}

\* /^\d{2}_.+$/
MatchesProvinsiName(s) ==
    Len(s) >= 4 /\ IsDigit(s[1]) /\ IsDigit(s[2]) /\ s[3] = "_"

Ext == <<".", "g", "e", "o", "j", "s", "o", "n">>

SufKecamatan == <<"_", "k", "e", "c", "a", "m", "a", "t", "a", "n">> \o Ext

SufKelurahan == <<"_", "k", "e", "l", "u", "r", "a", "h", "a", "n">> \o Ext

NameAceh == <<"1", "1", "_", "A", "c", "e", "h">> \o Ext

\* every file taken for a kabupaten file
DetectLevelKabupaten(file) == 2

\* the level of a source file, taken from its name
DetectLevel(file) ==
    IF EndsWith(file, SufKecamatan) THEN 3
    ELSE IF EndsWith(file, SufKelurahan) THEN 4
    ELSE IF file = NameAceh \/ MatchesProvinsiName(file) THEN 1
    ELSE 2

\* ------------------------------------------------- the GEOJSON directory
S11 == <<"1", "1">>

S12 == <<"1", "2">>

S13 == <<"1", "3">>

S01 == <<"0", "1">>

S1101 == S11 \o Dot \o S01

Feature(p, g) == [properties |-> p, geometry |-> g]

\* 11.01_Simeulue.geojson
FileKabupaten ==
    [name |-> S1101 \o <<"_", "S", "i", "m", "e", "u", "l", "u", "e">> \o Ext,
     features |->
       << Feature([kd_propinsi |-> S11, kd_dati2 |-> S01,
                   nm_dati2 |-> <<"S", "i", "m">>], GeomB) >>]

\* 11.01_kecamatan.geojson : one district delivered twice, with a padded
\* and an unpadded kd_kecamatan
FileKecamatan ==
    [name |-> S1101 \o SufKecamatan,
     features |->
       << Feature([kd_propinsi |-> S11, kd_dati2 |-> S01,
                   kd_kecamatan |-> <<"0", "1", "0", "5">>,
                   nm_kecamatan |-> <<"A", "l", "a">>], GeomA),
          Feature([kd_propinsi |-> S11, kd_dati2 |-> S01,
                   kd_kecamatan |-> <<"0", "5">>,
                   nm_kecamatan |-> <<"A", "l", "a", "f">>], GeomB) >>]

\* 11.01_kelurahan.geojson
FileKelurahan ==
    [name |-> S1101 \o SufKelurahan,
     features |->
       << Feature([kd_propinsi |-> S11, kd_dati2 |-> S01,
                   kd_kecamatan |-> <<"0", "1", "0", "5">>,
                   kd_kelurahan |-> <<"0", "0", "3">>,
                   nm_kelurahan |-> <<"L", "a">>], GeomA) >>]

\* 11_Aceh.geojson
FileAceh ==
    [name |-> NameAceh,
     features |->
       << Feature([kd_propinsi |-> S11, nm_propinsi |-> <<"A", "c", "e", "h">>], GeomA) >>]

\* 13_Sumbar.geojson : the first feature carries an empty kd_propinsi, the
\* last none at all
FileDirtyProvinsi ==
    [name |-> S13 \o <<"_", "S", "u", "m", "b", "a", "r">> \o Ext,
     features |->
       << Feature([kd_propinsi |-> <<>>, nm_propinsi |-> <<"S", "u">>], GeomB),
          Feature([kd_propinsi |-> S13, nm_propinsi |-> <<"S", "u", "m">>], GeomA),
          Feature([nm_propinsi |-> <<"S">>], GeomA) >>]

\* 12.01_kecamatan.geojson : the second feature has no kd_kecamatan
FileDirtyKecamatan ==
    [name |-> S12 \o Dot \o S01 \o SufKecamatan,
     features |->
       << Feature([kd_propinsi |-> S12, kd_dati2 |-> S01,
                   kd_kecamatan |-> <<"0", "7">>,
                   nm_kecamatan |-> <<"C">>], GeomB),
          Feature([kd_propinsi |-> S12, kd_dati2 |-> S01,
                   nm_kecamatan |-> <<"B">>], GeomA) >>]

S21 == <<"2", "1">>

S210 == <<"2", "1", "0">>

\* a provinsi file whose second feature carries a three-character kd_propinsi
FileWideProvinsi ==
    [name |-> <<"2", "1", "_", "K", "e", "p", "r", "i">> \o Ext,
     features |-> << Feature([kd_propinsi |-> S21,
                              nm_propinsi |-> <<"K", "e", "p">>], GeomA),
                     Feature([kd_propinsi |-> S210,
                              nm_propinsi |-> <<"K", "x">>], GeomB) >>]

\* a kabupaten file of the three-character kd_propinsi
FileWideKabupaten ==
    [name |-> S210 \o Dot \o S01 \o <<"_", "B", "a", "t">> \o Ext,
     features |-> << Feature([kd_propinsi |-> S210, kd_dati2 |-> S01,
                              nm_dati2 |-> <<"B", "a", "t">>], GeomA) >>]

S31 == <<"3", "1">>

\* 31_Jak.geojson : a provinsi file whose second feature carries the code
\* of a kabupaten in kd_propinsi
FileDottedProvinsi ==
    [name |-> S31 \o <<"_", "J", "a", "k">> \o Ext,
     features |-> << Feature([kd_propinsi |-> S31,
                              nm_propinsi |-> <<"J", "a", "k">>], GeomA),
                     Feature([kd_propinsi |-> S31 \o Dot \o S01,
                              nm_propinsi |-> <<"J", "p">>], GeomB) >>]

\* 31.01_Jp.geojson : the kabupaten file of that code
FileDottedKabupaten ==
    [name |-> S31 \o Dot \o S01 \o <<"_", "J", "p">> \o Ext,
     features |-> << Feature([kd_propinsi |-> S31, kd_dati2 |-> S01,
                              nm_dati2 |-> <<"J", "p", "u">>], GeomA) >>]

\* fs.readdirSync(GEOJSON_DIR), in directory order
Directory ==
    << FileKabupaten, FileKecamatan, FileKelurahan, FileAceh,
       FileDirtyKecamatan, FileDirtyProvinsi, FileWideProvinsi,
       FileWideKabupaten, FileDottedProvinsi, FileDottedKabupaten >>

\* the codes a client posts; the empty one stands for a missing code
SyncCodes == { <<>>, S11, S1101, S12, S13, <<"9", "9">> }

\* process.env.DB_PROVIDER and whether lib/supabase built an admin client
Envs == { [DB_PROVIDER |-> "POSTGRES", supabaseAdmin |-> FALSE],
          [DB_PROVIDER |-> "SUPABASE", supabaseAdmin |-> TRUE],
          [DB_PROVIDER |-> "SUPABASE", supabaseAdmin |-> FALSE] }

\* ---------------------------------------------------------------- state
VARIABLES
    env,        \* DB_PROVIDER and the Supabase admin client, fixed at start
    store,      \* the rows of m_wilayah_poligon
    now,        \* the database clock, NOW()
    sync,       \* the running POST /api/db/sync calls, one per slot
    hist,       \* per slot: what the call found and did (history)
    lastRun,    \* the last call that completed undisturbed (history)
    lastWrite,  \* per identifier: the upsert committed last (history)
    query,      \* the running GET /api/db/geojson call
    calls,      \* the number of requests received so far
    dFeature,   \* code deriver: the raw feature
    dLevel,     \* code deriver: the declared level
    dResult,    \* code deriver: the outcome, once applied
    status,     \* the running GET /api/db/status call
    fcRows,     \* toFeatureCollection: the rows handed in
    fcOut,      \* toFeatureCollection: the collection, once built
    search,     \* the running GET /api/search call
    boot        \* the process: its starts, initDB and seedInitialData

vars == << env, store, now, sync, hist, lastRun, lastWrite, query, calls,
           dFeature, dLevel, dResult, status, fcRows, fcOut, search, boot >>

\* the concurrent ETL calls
Reqs == {1, 2}

\* the number of requests a behaviour receives
MaxCalls == 2

\* the number of status requests a behaviour receives
MaxStatusCalls == 1

NoCall == [kode |-> Undefined, nama |-> Undefined, level |-> 0, geometry |-> GeomA]

NoResp == [status |-> 0, success |-> FALSE, hasProcessed |-> FALSE, processed |-> 0]

\* res.json({ success: true, processed: totalProcessed })
RespOk(n) == [status |-> 200, success |-> TRUE, hasProcessed |-> TRUE, processed |-> n]

\* an error response that still carries a count
RespErrorCounted(c) ==
    [status |-> c, success |-> FALSE, hasProcessed |-> TRUE, processed |-> 0]

\* res.status(c).json({ error: ... })
RespError(c) == [status |-> c, success |-> FALSE, hasProcessed |-> FALSE, processed |-> 0]

Idle == [pc |-> "idle", code |-> <<>>, files |-> <<>>, fi |-> 1, ki |-> 1,
         totalProcessed |-> 0, call |-> NoCall, ret |-> "none", resp |-> NoResp]

\* name and geometry of every identifier
Proj(rows) == {[kode |-> r.kode, nama |-> r.nama, geometry |-> r.geometry] : r \in rows}

\* order : the features an upsert was issued for, as <<file, feature>>;
\* upserts, fails : the statements that committed, that failed
NoHist == [start |-> {}, startCount |-> 0, second |-> FALSE, solo |-> TRUE,
           upserts |-> 0, end |-> {}, endCount |-> 0, order |-> << >>, fails |-> 0]

NoRun == [valid |-> FALSE, code |-> <<>>, proj |-> {}]

\* fs.readdirSync(GEOJSON_DIR).filter(startsWith(code) && endsWith('.geojson'))
RECURSIVE MatchedFrom(_, _)
MatchedFrom(code, i) ==
    IF i > Len(Directory) THEN <<>>
    ELSE (IF StartsWith(Directory[i].name, code) /\ EndsWith(Directory[i].name, Ext)
          THEN <<i>> ELSE <<>>) \o MatchedFrom(code, i + 1)

MatchedFiles(code) == MatchedFrom(code, 1)

\* the loops of the handler, run from feature ki of file fi up to the next
\* await or to the response
RECURSIVE RunLoop(_)
RunLoop(s) ==
    IF s.fi > Len(s.files)
    THEN [s EXCEPT !.pc = "done", !.resp = RespOk(s.totalProcessed)]
    ELSE LET file == Directory[s.files[s.fi]]
             level == DetectLevel(file.name)
         IN  IF s.ki > Len(file.features)
             THEN RunLoop([s EXCEPT !.fi = @ + 1, !.ki = 1])
             ELSE LET feature == file.features[s.ki]
                      t == transformProperties(feature, level)
                  IN  IF t.threw
                      THEN [s EXCEPT !.pc = "done", !.resp = RespError(500)]
                      ELSE IF env.DB_PROVIDER = "SUPABASE" /\ ~env.supabaseAdmin
                      THEN [s EXCEPT !.pc = "done", !.resp = RespError(500)]
                      ELSE [s EXCEPT !.pc = "awaitUpsert",
                                     !.call = [kode |-> t.kode, nama |-> t.nama,
                                               level |-> level,
                                               geometry |-> feature.geometry]]

\* a call that has answered leaves its outcome in the history
Settle(r, s, h) ==
    IF s.pc = "done"
    THEN [h EXCEPT !.end = Proj(store), !.endCount = Cardinality(store)]
    ELSE IF s.pc = "awaitUpsert"
    THEN [h EXCEPT !.order = Append(@, << s.files[s.fi], s.ki >>)]
    ELSE h

Remember(s, h) ==
    IF s.pc = "done" /\ s.resp.status = 200 /\ h.solo
    THEN [valid |-> TRUE, code |-> s.code, proj |-> Proj(store)]
    ELSE lastRun

\* app.post('/api/db/sync') up to its first await; a call is named by the
\* lowest slot that is free
SyncRequest(r, code) ==
    /\ sync[r].pc \in {"idle", "done"}
    /\ \A q \in Reqs : q < r => sync[q].pc \notin {"idle", "done"}
    /\ calls < MaxCalls
    /\ calls' = calls + 1
    /\ LET s0 == [Idle EXCEPT !.code = code]
           files == MatchedFiles(code)
           s1 == IF code = <<>>
                 THEN [s0 EXCEPT !.pc = "done", !.resp = RespError(400)]
                 ELSE IF Len(files) = 0
                 THEN [s0 EXCEPT !.pc = "done", !.resp = RespError(404)]
                 ELSE RunLoop([s0 EXCEPT !.files = files])
           h1 == [NoHist EXCEPT !.start = Proj(store),
                                !.startCount = Cardinality(store),
                                !.second = /\ lastRun.valid
                                           /\ lastRun.code = code
                                           /\ lastRun.proj = Proj(store)]
       IN  /\ sync' = [sync EXCEPT ![r] = s1]
           /\ hist' = [hist EXCEPT ![r] = Settle(r, s1, h1)]
           /\ lastRun' = Remember(s1, h1)
    /\ UNCHANGED << env, store, now, lastWrite, query, dFeature, dLevel, dResult,
                    status, fcRows, fcOut,
                    search, boot >>

\* the statement of upsertFeature fails: the database cannot be reached
\* (at any time), or the key is NULL (an undefined kode)
DbUpsertFails(r) ==
    /\ sync[r].pc = "awaitUpsert"
    /\ sync' = [sync EXCEPT ![r].pc = "resume", ![r].ret = "error"]
    /\ hist' = [hist EXCEPT ![r].fails = @ + 1]
    /\ UNCHANGED << env, store, now, lastRun, lastWrite, query, calls,
                    dFeature, dLevel, dResult,
                    status, fcRows, fcOut,
                    search, boot >>

\* the statement of upsertFeature commits
DbUpsertCommits(r) ==
    /\ sync[r].pc = "awaitUpsert"
    /\ sync[r].call.kode.t = "string"
    /\ LET c == sync[r].call
           k == c.kode.v
           old == {w \in lastWrite : w.kode = k}
       IN  /\ store' = Upsert(store, k, c.nama, c.level, c.geometry, now + 1)
           /\ lastWrite' = (lastWrite \ old) \cup
                  {[kode |-> k, nama |-> c.nama, geometry |-> c.geometry, by |-> r,
                    prevBy |-> IF old = {} THEN 0 ELSE (CHOOSE w \in old : TRUE).by,
                    prevGeometry |-> IF old = {} THEN c.geometry
                                     ELSE (CHOOSE w \in old : TRUE).geometry]}
    /\ now' = now + 1
    /\ sync' = [sync EXCEPT ![r].pc = "resume", ![r].ret = "ok"]
    /\ hist' = [q \in Reqs |->
                  IF q = r THEN [hist[q] EXCEPT !.upserts = @ + 1]
                  ELSE IF sync[q].pc \in {"awaitUpsert", "resume"}
                  THEN [hist[q] EXCEPT !.solo = FALSE]
                  ELSE hist[q]]
    /\ UNCHANGED << env, lastRun, query, calls, dFeature, dLevel, dResult,
                    status, fcRows, fcOut,
                    search, boot >>

\* the upsert returned but the counter stays
CountedNot(s) ==
    [s EXCEPT !.ki = @ + 1, !.call = NoCall, !.ret = "none"]

\* the loop steps over the next feature
CountedSkip(s) ==
    [s EXCEPT !.totalProcessed = @ + 1, !.ki = @ + 2, !.call = NoCall, !.ret = "none"]

\* totalProcessed++ and on to the next feature
Counted(s) ==
    [s EXCEPT !.totalProcessed = @ + 1, !.ki = @ + 1, !.call = NoCall, !.ret = "none"]

\* the handler after await upsertFeature(...): the catch block, or
\* totalProcessed++ and the next turn of the loops
SyncResume(r) ==
    /\ sync[r].pc = "resume"
    /\ LET s == sync[r]
           s1 == IF s.ret = "error"
                 THEN [s EXCEPT !.pc = "done", !.resp = RespError(500),
                                !.call = NoCall, !.ret = "none"]
                 ELSE RunLoop(Counted(s))
       IN  /\ sync' = [sync EXCEPT ![r] = s1]
           /\ hist' = [hist EXCEPT ![r] = Settle(r, s1, hist[r])]
           /\ lastRun' = Remember(s1, hist[r])
    /\ UNCHANGED << env, store, now, lastWrite, query, calls, dFeature, dLevel, dResult,
                    status, fcRows, fcOut,
                    search, boot >>

\* ------------------------------------------------ GET /api/db/geojson
\* code.substring(0, n)
Substring0(x, n) == SubSeq(x, 1, IF n < Len(x) THEN n ELSE Len(x))

Fetch(slot, level, prefix) == [slot |-> slot, level |-> level, prefix |-> prefix]

\* a kecamatan query that leaves out the parent kabupaten
FetchPlanNoContext(code) ==
    LET codeLen == Len(code) IN
    IF codeLen = 2
    THEN << Fetch("provinsi", 1, code), Fetch("kabupaten", 2, code) >>
    ELSE IF codeLen = 5
    THEN << Fetch("kabupaten", 2, code), Fetch("kecamatan", 3, code),
            Fetch("kelurahan", 4, code) >>
    ELSE IF codeLen = 8
    THEN << Fetch("kecamatan", 3, code), Fetch("kelurahan", 4, code) >>
    ELSE IF codeLen >= 13
    THEN << Fetch("kecamatan", 3, Substring0(code, 8)), Fetch("kelurahan", 4, code) >>
    ELSE << >>

\* FETCH STRATEGY BASED ON CODE LEVEL : the calls of fetchGeoData, in order
FetchPlan(code) ==
    LET codeLen == Len(code) IN
    IF codeLen = 2
    THEN << Fetch("provinsi", 1, code), Fetch("kabupaten", 2, code) >>
    ELSE IF codeLen = 5
    THEN << Fetch("kabupaten", 2, code), Fetch("kecamatan", 3, code),
            Fetch("kelurahan", 4, code) >>
    ELSE IF codeLen = 8
    THEN << Fetch("kabupaten", 2, Substring0(code, 5)), Fetch("kecamatan", 3, code),
            Fetch("kelurahan", 4, code) >>
    ELSE IF codeLen >= 13
    THEN << Fetch("kecamatan", 3, Substring0(code, 8)), Fetch("kelurahan", 4, code) >>
    ELSE << >>

\* a SELECT that leaves the level out of its WHERE
RowsByLevelAny(rows, targetLevel, codePrefix) ==
    {r \in rows : StartsWith(r.kode, codePrefix)}

\* WHERE level = $1 AND kode_wilayah_kemendagri LIKE prefix || '%'
\* (the codes drawn hold no LIKE wildcard)
RowsByLevel(rows, targetLevel, codePrefix) ==
    {r \in rows : r.level = targetLevel /\ StartsWith(r.kode, codePrefix)}

\* the orders a result set can come in
Orderings(S) ==
    {q \in [1..Cardinality(S) -> S] : \A i, j \in 1..Cardinality(S) : i # j => q[i] # q[j]}

\* a SELECT that takes the code column for the name
SelectedByCode(e, r) ==
    [id |-> r.kode, name |-> Str(r.kode),
     geom |-> [kind |-> IF e.DB_PROVIDER = "SUPABASE" THEN "object" ELSE "string",
               parses |-> TRUE, value |-> r.geometry]]

\* the row as selected: id, name, and ST_AsGeoJSON(geometry), a string from
\* the direct connection and a json value from the RPC
SelectedBy(e, r) ==
    [id |-> r.kode, name |-> r.nama,
     geom |-> [kind |-> IF e.DB_PROVIDER = "SUPABASE" THEN "object" ELSE "string",
               parses |-> TRUE, value |-> r.geometry]]

Selected(r) == SelectedBy(env, r)

NullGeometry == [type |-> "null", dims |-> 0, shape |-> "", detail |-> ""]

\* a reader that finds no string parsable
ParsedGeometryNever(geom) ==
    IF geom.kind = "string" THEN NullGeometry ELSE geom.value

\* JSON.parse of a geometry that came as a string, null when it fails
ParsedGeometry(geom) ==
    IF geom.kind = "string" /\ ~geom.parses THEN NullGeometry ELSE geom.value

\* toFeatureCollection(rows)
toFeatureCollection(rows) ==
    [i \in 1..Len(rows) |->
        [properties |-> [name |-> rows[i].name, id |-> rows[i].id],
         geometry |-> ParsedGeometry(rows[i].geom)]]

Unset == [data |-> FALSE, features |-> << >>]

EmptyBundle == [provinsi |-> Unset, kabupaten |-> Unset, kecamatan |-> Unset,
                kelurahan |-> Unset]

\* per level key, the rows the fetch of that key returned (history)
NoRows == [provinsi |-> << >>, kabupaten |-> << >>, kecamatan |-> << >>,
           kelurahan |-> << >>]

\* nfail, got and seen are history: the fetches that failed, the rows each
\* key's fetch returned, the table contents the fetches read
QIdle == [pc |-> "idle", code |-> << >>, plan |-> << >>, i |-> 1, fetched |-> << >>,
          rows |-> << >>, ret |-> "none", result |-> EmptyBundle, status |-> 0,
          nfail |-> 0, got |-> NoRows, seen |-> {}]

\* what await fetchGeoData(...) hands to the handler: the RPC's error is
\* logged and read as no rows, the direct connection's error is thrown
fetchGeoData(e, ret, rows) ==
    IF ret = "error"
    THEN [threw |-> e.DB_PROVIDER # "SUPABASE", rows |-> << >>]
    ELSE [threw |-> FALSE, rows |-> rows]

\* a handler that wraps an empty result as well
SlotDataAlways(old, rows) ==
    [data |-> TRUE, features |-> toFeatureCollection(rows)]

\* if (rows.length > 0) result.<key>.data = toFeatureCollection(rows)
SlotData(old, rows) ==
    IF Len(rows) > 0
    THEN [data |-> TRUE, features |-> toFeatureCollection(rows)]
    ELSE old

\* the handler from fetch i of its plan up to the next await or the response
QueryRun(q) ==
    IF q.i > Len(q.plan)
    THEN [q EXCEPT !.pc = "done", !.status = 200]
    ELSE IF env.DB_PROVIDER = "SUPABASE" /\ ~env.supabaseAdmin
    THEN [q EXCEPT !.pc = "done", !.status = 500]
    ELSE [q EXCEPT !.pc = "awaitFetch", !.fetched = Append(@, q.plan[q.i])]

\* the codes a client asks the map for; the empty one stands for a missing
\* code
QueryCodes ==
    { << >>, <<"1">>, S11, S1101, S1101 \o Dot \o <<"0", "5">>,
      S1101 \o Dot \o <<"0", "5">> \o Dot \o <<"2", "0", "0", "3">> }

\* app.get('/api/db/geojson') up to its first await
QueryRequest(code) ==
    /\ query.pc \in {"idle", "done"}
    /\ calls < MaxCalls
    /\ calls' = calls + 1
    /\ query' = IF code = << >>
                THEN [QIdle EXCEPT !.pc = "done", !.status = 400]
                ELSE QueryRun([QIdle EXCEPT !.code = code, !.plan = FetchPlan(code)])
    /\ UNCHANGED << env, store, now, sync, hist, lastRun, lastWrite,
                    dFeature, dLevel, dResult,
                    status, fcRows, fcOut,
                    search, boot >>

\* the SELECT of fetchGeoData answers, its rows in some order
DbFetchAnswers ==
    /\ query.pc = "awaitFetch"
    /\ LET f == query.plan[query.i]
       IN  \E rows \in Orderings({Selected(r) :
                                     r \in RowsByLevel(store, f.level, f.prefix)}) :
             query' = [query EXCEPT !.pc = "resume", !.ret = "ok", !.rows = rows,
                                    !.got[f.slot] = rows, !.seen = @ \cup {store}]
    /\ UNCHANGED << env, store, now, sync, hist, lastRun, lastWrite, calls,
                    dFeature, dLevel, dResult,
                    status, fcRows, fcOut,
                    search, boot >>

\* the SELECT of fetchGeoData fails
DbFetchFails ==
    /\ query.pc = "awaitFetch"
    /\ query' = [query EXCEPT !.pc = "resume", !.ret = "error", !.rows = << >>,
                              !.nfail = @ + 1]
    /\ UNCHANGED << env, store, now, sync, hist, lastRun, lastWrite, calls,
                    dFeature, dLevel, dResult,
                    status, fcRows, fcOut,
                    search, boot >>

\* the handler after await fetchGeoData(...): a thrown error reaches the
\* catch block, rows fill the key of the fetch
QueryResume ==
    /\ query.pc = "resume"
    /\ LET f == query.plan[query.i]
           a == fetchGeoData(env, query.ret, query.rows)
           q0 == [query EXCEPT !.rows = << >>, !.ret = "none"]
       IN  query' =
             IF a.threw
             THEN [q0 EXCEPT !.pc = "done", !.status = 500]
             ELSE QueryRun([q0 EXCEPT
                     !.i = @ + 1,
                     !.result[f.slot] = SlotData(@, a.rows)])
    /\ UNCHANGED << env, store, now, sync, hist, lastRun, lastWrite, calls,
                    dFeature, dLevel, dResult,
                    status, fcRows, fcOut,
                    search, boot >>

\* -------------------------------------------------- GET /api/db/status
NoStats == [provinsi |-> 0, kabupaten |-> 0, kecamatan |-> 0, kelurahan |-> 0,
            available |-> FALSE, fileAvailable |-> FALSE]

\* WHERE kode_wilayah_kemendagri LIKE code || '%' (ilike through the
\* gateway; the codes drawn hold no letter and no wildcard)
RowsLike(rows, code) == {r \in rows : StartsWith(r.kode, code)}

\* a count that takes the level-1 rows for every level
LevelCountsFlat(rows, code) ==
    [l \in 1..4 |-> Cardinality({r \in RowsLike(rows, code) : r.level = 1})]

\* ... GROUP BY level, and the levels.forEach of the gateway branch: per
\* level, the number of rows selected
LevelCounts(rows, code) ==
    [l \in 1..4 |-> Cardinality({r \in RowsLike(rows, code) : r.level = l})]

NoCounts == [l \in 1..4 |-> 0]

Total(c) == c[1] + c[2] + c[3] + c[4]

Geojson == <<"g", "e", "o", "j", "s", "o", "n">>

\* file.match(new RegExp(`^${code}_[^_]+\.geojson$`)) : the escape is lost in
\* the template string, the dot stands for any character
MatchesCodeFile(file, code) ==
    LET from == Len(code) + 2
        to == Len(file) - 8
    IN  /\ StartsWith(file, code \o <<"_">>)
        /\ EndsWith(file, Geojson)
        /\ to >= from
        /\ \A i \in from..to : file[i] # "_"

\* files.some(...) over GEOJSON_DIR
HasFile(code) ==
    \E i \in 1..Len(Directory) :
        \/ Len(code) = 2 /\ MatchesCodeFile(Directory[i].name, code)
        \/ StartsWith(Directory[i].name, code) /\ EndsWith(Directory[i].name, Ext)

\* stage : the statement awaited; answer : what it returned, per level;
\* seen and nfail are history, n counts the status requests received
SIdle == [pc |-> "idle", code |-> << >>, stage |-> "none", ret |-> "none",
          answer |-> NoCounts, stats |-> NoStats, http |-> 0, error |-> FALSE,
          seen |-> {}, nfail |-> 0, n |-> 0]

\* res.json(stats) after the look into GEOJSON_DIR
StatusAnswer(s) ==
    [s EXCEPT !.pc = "done", !.stage = "none", !.http = 200,
              !.stats.fileAvailable = HasFile(s.code)]

\* the catch block: res.json({ available: false, error: ... })
StatusCaught(s) ==
    [s EXCEPT !.pc = "done", !.stage = "none", !.http = 200, !.error = TRUE,
              !.stats = NoStats]

StatusCodes == { << >>, S11, S21 }

\* app.get('/api/db/status') up to its first await
StatusRequest(code) ==
    /\ status.pc \in {"idle", "done"}
    /\ status.n < MaxStatusCalls
    /\ status' =
         LET s0 == [SIdle EXCEPT !.code = code, !.n = status.n + 1] IN
         IF code = << >>
         THEN [s0 EXCEPT !.pc = "done", !.http = 400, !.error = TRUE]
         ELSE IF env.DB_PROVIDER = "SUPABASE"
         THEN IF ~env.supabaseAdmin
              THEN StatusCaught(s0)
              ELSE [s0 EXCEPT !.pc = "awaitStatus", !.stage = "all"]
         ELSE [s0 EXCEPT !.pc = "awaitStatus", !.stage = "group"]
    /\ UNCHANGED << env, store, now, sync, hist, lastRun, lastWrite, query, calls,
                    dFeature, dLevel, dResult, fcRows, fcOut,
                    search, boot >>

\* the statement awaited answers from the table as it is now
DbStatusAnswers ==
    /\ status.pc = "awaitStatus"
    /\ status' = [status EXCEPT !.pc = "resume", !.ret = "ok",
                                !.answer = LevelCounts(store, status.code),
                                !.seen = @ \cup {store}]
    /\ UNCHANGED << env, store, now, sync, hist, lastRun, lastWrite, query, calls,
                    dFeature, dLevel, dResult, fcRows, fcOut,
                    search, boot >>

\* the statement awaited fails
DbStatusFails ==
    /\ status.pc = "awaitStatus"
    /\ status' = [status EXCEPT !.pc = "resume", !.ret = "error",
                                !.answer = NoCounts, !.nfail = @ + 1]
    /\ UNCHANGED << env, store, now, sync, hist, lastRun, lastWrite, query, calls,
                    dFeature, dLevel, dResult, fcRows, fcOut,
                    search, boot >>

\* the handler after an await. Through the gateway: the select of the whole
\* table (its outcome unused), the exact count and, when it is positive,
\* the select of the levels; an error of these is an object nobody throws.
\* Direct: the grouped count, whose error reaches the catch block
StatusResume ==
    /\ status.pc = "resume"
    /\ LET s == [status EXCEPT !.ret = "none", !.answer = NoCounts]
           c == status.answer
           failed == status.ret = "error"
       IN  status' =
             CASE status.stage = "all" ->
                    [s EXCEPT !.pc = "awaitStatus", !.stage = "count"]
               [] status.stage = "count" ->
                    IF failed THEN StatusAnswer(s)
                    ELSE IF Total(c) > 0
                    THEN [s EXCEPT !.pc = "awaitStatus", !.stage = "levels",
                                   !.stats.available = TRUE]
                    ELSE StatusAnswer(s)
               [] status.stage = "levels" ->
                    IF failed THEN StatusAnswer(s)
                    ELSE StatusAnswer([s EXCEPT !.stats.provinsi = c[1],
                                                !.stats.kabupaten = c[2],
                                                !.stats.kecamatan = c[3],
                                                !.stats.kelurahan = c[4]])
               [] OTHER ->
                    IF failed THEN StatusCaught(s)
                    ELSE StatusAnswer([s EXCEPT !.stats.provinsi = c[1],
                                                !.stats.kabupaten = c[2],
                                                !.stats.kecamatan = c[3],
                                                !.stats.kelurahan = c[4],
                                                !.stats.available = Total(c) > 0])
    /\ UNCHANGED << env, store, now, sync, hist, lastRun, lastWrite, query, calls,
                    dFeature, dLevel, dResult, fcRows, fcOut,
                    search, boot >>

\* ------------------------------------------------------ GET /api/search
Uppers == <<"A", "B", "C", "D", "E", "F", "G", "H", "I", "J", "K", "L", "M",
            "N", "O", "P", "Q", "R", "S", "T", "U", "V", "W", "X", "Y", "Z">>

Lowers == <<"a", "b", "c", "d", "e", "f", "g", "h", "i", "j", "k", "l", "m",
            "n", "o", "p", "q", "r", "s", "t", "u", "v", "w", "x", "y", "z">>

\* lower(...) and toLowerCase(), one character
LowerChar(c) ==
    IF \E i \in 1..26 : Uppers[i] = c
    THEN Lowers[CHOOSE i \in 1..26 : Uppers[i] = c]
    ELSE c

Lower(x) == [i \in 1..Len(x) |-> LowerChar(x[i])]

\* x LIKE pat : % stands for any run of characters, _ for any one
RECURSIVE Like(_, _)
Like(x, pat) ==
    IF pat = << >> THEN x = << >>
    ELSE IF Head(pat) = "%"
    THEN \E k \in 0..Len(x) : Like(SubSeq(x, k + 1, Len(x)), Tail(pat))
    ELSE x # << >> /\ (Head(pat) = "_" \/ Head(pat) = Head(x)) /\ Like(Tail(x), Tail(pat))

\* WHERE lower(nama_wilayah_kemendagri) LIKE '%' || lower(q) || '%' ; a NULL
\* name matches nothing
SearchMatches(rows, q) ==
    {r \in rows : r.nama.t = "string"
                  /\ Like(Lower(r.nama.v), <<"%">> \o Lower(q) \o <<"%">>)}

\* the place of a character in the collation
Rank(c) ==
    IF \E i \in 1..26 : Lowers[i] = LowerChar(c)
    THEN 2 * (CHOOSE i \in 1..26 : Lowers[i] = LowerChar(c)) + (IF c = LowerChar(c) THEN 0 ELSE 1)
    ELSE 0

\* a < b in the collation
RECURSIVE NameLess(_, _)
NameLess(a, b) ==
    IF b = << >> THEN FALSE
    ELSE IF a = << >> THEN TRUE
    ELSE IF Rank(Head(a)) # Rank(Head(b)) THEN Rank(Head(a)) < Rank(Head(b))
    ELSE NameLess(Tail(a), Tail(b))

\* ORDER BY level ASC, nama_wilayah_kemendagri ASC
RowBefore(a, b) ==
    \/ a.level < b.level
    \/ a.level = b.level /\ NameLess(a.nama.v, b.nama.v)

\* the orders ORDER BY can give a set of rows: rows that tie come in any
\* order
RECURSIVE SortedSeqs(_)
SortedSeqs(S) ==
    IF S = {} THEN { << >> }
    ELSE UNION {{<< m >> \o t : t \in SortedSeqs(S \ {m})} :
                   m \in {x \in S : \A y \in S : ~RowBefore(y, x)}}

\* LIMIT 10
SearchLimit == 10

Limited(q) == SubSeq(q, 1, IF Len(q) < SearchLimit THEN Len(q) ELSE SearchLimit)

\* SELECT kode AS id, nama AS name, level
SearchRow(r) == [id |-> r.kode, name |-> r.nama, level |-> r.level]

\* the result sets the statement can give
SearchResults(rows, q) ==
    {[i \in 1..Len(Limited(o)) |-> SearchRow(o[i])] : o \in SortedSeqs(SearchMatches(rows, q))}

\* seen and nfail are history
SrIdle == [pc |-> "idle", q |-> << >>, stage |-> "none", ret |-> "none",
           rows |-> << >>, http |-> 0, out |-> << >>, seen |-> {}, nfail |-> 0]

\* the texts typed into the search box; the empty one stands for a missing q
SearchTexts ==
    { << >>, <<"a", "c">>, <<"a", "c", "e">>, <<"A", "C", "E">>, <<"a", "_", "e">> }

\* app.get('/api/search') up to its first await
SearchRequest(q) ==
    /\ search.pc \in {"idle", "done"}
    /\ calls < MaxCalls
    /\ calls' = calls + 1
    /\ search' =
         LET s0 == [SrIdle EXCEPT !.q = q] IN
         IF q = << >> \/ Len(q) < 3
         THEN [s0 EXCEPT !.pc = "done", !.http = 200]
         ELSE IF env.DB_PROVIDER = "SUPABASE"
         THEN IF ~env.supabaseAdmin
              THEN [s0 EXCEPT !.pc = "done", !.http = 500]
              ELSE [s0 EXCEPT !.pc = "awaitSearch", !.stage = "rpc"]
         ELSE [s0 EXCEPT !.pc = "awaitSearch", !.stage = "select"]
    /\ UNCHANGED << env, store, now, sync, hist, lastRun, lastWrite, query,
                    dFeature, dLevel, dResult, status, fcRows, fcOut, boot >>

\* the statement awaited answers from the table as it is now
DbSearchAnswers ==
    /\ search.pc = "awaitSearch"
    /\ \E rows \in SearchResults(store, search.q) :
          search' = [search EXCEPT !.pc = "resume", !.ret = "ok", !.rows = rows,
                                   !.seen = @ \cup {store}]
    /\ UNCHANGED << env, store, now, sync, hist, lastRun, lastWrite, query, calls,
                    dFeature, dLevel, dResult, status, fcRows, fcOut, boot >>

\* the statement awaited fails
DbSearchFails ==
    /\ search.pc = "awaitSearch"
    /\ search' = [search EXCEPT !.pc = "resume", !.ret = "error", !.rows = << >>,
                                !.nfail = @ + 1]
    /\ UNCHANGED << env, store, now, sync, hist, lastRun, lastWrite, query, calls,
                    dFeature, dLevel, dResult, status, fcRows, fcOut, boot >>

\* the handler after an await: the RPC's error leads to the direct select
\* through the gateway, whose error is thrown; the direct connection's
\* error reaches the catch block
SearchResume ==
    /\ search.pc = "resume"
    /\ LET s == [search EXCEPT !.ret = "none", !.rows = << >>, !.stage = "none"]
       IN  search' =
             IF search.ret = "error"
             THEN IF search.stage = "rpc"
                  THEN [s EXCEPT !.pc = "awaitSearch", !.stage = "fallback"]
                  ELSE [s EXCEPT !.pc = "done", !.http = 500]
             ELSE [s EXCEPT !.pc = "done", !.http = 200, !.out = search.rows]
    /\ UNCHANGED << env, store, now, sync, hist, lastRun, lastWrite, query, calls,
                    dFeature, dLevel, dResult, status, fcRows, fcOut, boot >>

\* ------------------------------------------------------------- startup
\* the number of times the process is started
MaxStarts == 3

\* 11_Aceh.geojson as seedInitialData finds it on disk
SeedAceh == [exists |-> TRUE, parses |-> TRUE, features |-> FileAceh.features]

\* ... with a second province behind Aceh
SeedTwo ==
    [exists |-> TRUE, parses |-> TRUE,
     features |-> FileAceh.features
                    \o << Feature([kd_propinsi |-> S12,
                                   nm_propinsi |-> <<"S", "u", "m">>], GeomB) >>]

\* ... with a first feature that has no kd_propinsi
SeedBrokenFirst ==
    [exists |-> TRUE, parses |-> TRUE,
     features |-> << Feature([nm_propinsi |-> <<"A", "c">>], GeomA) >>
                    \o FileAceh.features]

\* ... absent : fs.existsSync(filePath) is false
SeedMissing == [exists |-> FALSE, parses |-> FALSE, features |-> << >>]

\* ... holding no JSON : JSON.parse throws
SeedUnparsable == [exists |-> TRUE, parses |-> FALSE, features |-> << >>]

SeedDisks == { SeedAceh, SeedTwo, SeedBrokenFirst, SeedMissing, SeedUnparsable }

\* runs, checked, seen, order, wrote, attempted, attempts and prevFailed
\* are history: the calls of seedInitialData in this process, what its
\* check found in which table, the upserts it issued and committed,
\* whether this start read the seed file, how many starts did, and whether
\* an earlier start's seeding threw
NoBoot == [starts |-> 0, proc |-> "off", listening |-> FALSE, init |-> "none",
           seed |-> "wait", ret |-> "none", exists |-> FALSE, ki |-> 1,
           processed |-> 0, call |-> NoCall, outcome |-> "none", log |-> {},
           disk |-> SeedAceh, runs |-> 0, checked |-> "none", seen |-> {},
           order |-> << >>, wrote |-> 0, attempted |-> FALSE, attempts |-> 0,
           prevFailed |-> FALSE]

\* the try blocks leave out the upsert loop
CaughtButUpsert(site) == site \in {"initDB", "check", "parse"}

\* the places an error is raised at that lie inside a try block: the
\* statement of initDB, the existence check, JSON.parse and the loop with
\* transformProperties and upsertFeature
Caught(site) == site \in {"initDB", "check", "parse", "transform", "upsert"}

\* console.error and on; an error outside every try block rejects a
\* promise nobody handles, which ends the process
AfterError(b, site) ==
    IF Caught(site) THEN [b EXCEPT !.log = @ \cup {site}]
    ELSE [b EXCEPT !.proc = "crashed", !.listening = FALSE]

\* seedInitialData from its first line to its first await
SeedBegin(b) ==
    LET b1 == [b EXCEPT !.runs = @ + 1] IN
    IF env.DB_PROVIDER = "SUPABASE" /\ ~env.supabaseAdmin
    THEN [b1 EXCEPT !.seed = "done", !.outcome = "skipped"]
    ELSE [b1 EXCEPT !.seed = "awaitCheck"]

\* for (const feature of data.features), from feature ki to the next await
\* or the end
SeedLoop(b) ==
    IF b.ki > Len(b.disk.features)
    THEN [b EXCEPT !.seed = "done", !.outcome = "seeded"]
    ELSE LET feature == b.disk.features[b.ki]
             t == transformProperties(feature, 1)
             c == [kode |-> t.kode, nama |-> t.nama, level |-> 1,
                   geometry |-> feature.geometry]
         IN  IF t.threw
             THEN AfterError([b EXCEPT !.seed = "done", !.outcome = "failed"], "transform")
             ELSE IF env.DB_PROVIDER = "SUPABASE" /\ ~env.supabaseAdmin
             THEN AfterError([b EXCEPT !.seed = "done", !.outcome = "failed"], "upsert")
             ELSE [b EXCEPT !.seed = "awaitUpsert", !.call = c, !.order = Append(@, c)]

\* a seeding that goes on whatever the check said
SeedsAlways(ret, exists) == TRUE

\* the check returned without an error and if (!exists)
Seeds(ret, exists) == ret = "ok" /\ ~exists

\* the handlers are between two requests
Quiet ==
    /\ \A r \in Reqs : sync[r].pc \in {"idle", "done"}
    /\ query.pc \in {"idle", "done"}
    /\ status.pc \in {"idle", "done"}
    /\ search.pc \in {"idle", "done"}

\* node server.js, the first time or again after the process was stopped:
\* initDB() up to its await (or its return under SUPABASE, and then
\* seedInitialData up to its await), and app.listen
Start ==
    /\ boot.starts < MaxStarts
    /\ \/ boot.proc = "off"
       \/ boot.proc = "crashed"
       \/ boot.proc = "up" /\ boot.seed = "done" /\ Quiet
    /\ LET b0 == [NoBoot EXCEPT !.starts = boot.starts + 1, !.proc = "up",
                                !.listening = TRUE, !.disk = boot.disk,
                                !.attempts = boot.attempts,
                                !.prevFailed = boot.prevFailed \/ boot.outcome = "failed"]
       IN  boot' = IF env.DB_PROVIDER = "SUPABASE"
                   THEN SeedBegin([b0 EXCEPT !.init = "skipped"])
                   ELSE [b0 EXCEPT !.init = "await"]
    /\ UNCHANGED << env, store, now, sync, hist, lastRun, lastWrite, query, calls,
                    dFeature, dLevel, dResult, status, fcRows, fcOut, search >>

\* the statement of initDB runs
DbInitAnswers ==
    /\ boot.proc = "up" /\ boot.init = "await"
    /\ boot' = [boot EXCEPT !.init = "resume", !.ret = "ok"]
    /\ UNCHANGED << env, store, now, sync, hist, lastRun, lastWrite, query, calls,
                    dFeature, dLevel, dResult, status, fcRows, fcOut, search >>

\* the statement of initDB fails
DbInitFails ==
    /\ boot.proc = "up" /\ boot.init = "await"
    /\ boot' = [boot EXCEPT !.init = "resume", !.ret = "error"]
    /\ UNCHANGED << env, store, now, sync, hist, lastRun, lastWrite, query, calls,
                    dFeature, dLevel, dResult, status, fcRows, fcOut, search >>

\* initDB after its await, and .then(() => seedInitialData())
InitResume ==
    /\ boot.proc = "up" /\ boot.init = "resume"
    /\ LET b1 == IF boot.ret = "error"
                 THEN AfterError([boot EXCEPT !.init = "failed", !.ret = "none"], "initDB")
                 ELSE [boot EXCEPT !.init = "ok", !.ret = "none"]
       IN  boot' = IF b1.proc = "up" THEN SeedBegin(b1) ELSE b1
    /\ UNCHANGED << env, store, now, sync, hist, lastRun, lastWrite, query, calls,
                    dFeature, dLevel, dResult, status, fcRows, fcOut, search >>

\* the existence check answers from the table as it is now
DbCheckAnswers ==
    /\ boot.proc = "up" /\ boot.seed = "awaitCheck"
    /\ LET found == \E r \in store : r.level = 1
       IN  boot' = [boot EXCEPT !.seed = "resumeCheck", !.ret = "ok", !.exists = found,
                                !.checked = IF found THEN "present" ELSE "absent",
                                !.seen = {store}]
    /\ UNCHANGED << env, store, now, sync, hist, lastRun, lastWrite, query, calls,
                    dFeature, dLevel, dResult, status, fcRows, fcOut, search >>

\* the existence check fails
DbCheckFails ==
    /\ boot.proc = "up" /\ boot.seed = "awaitCheck"
    /\ boot' = [boot EXCEPT !.seed = "resumeCheck", !.ret = "error", !.checked = "error"]
    /\ UNCHANGED << env, store, now, sync, hist, lastRun, lastWrite, query, calls,
                    dFeature, dLevel, dResult, status, fcRows, fcOut, search >>

\* seedInitialData after the check: return on its error, skip when a
\* level-1 row exists, else read the file and enter the loop
SeedResumeCheck ==
    /\ boot.proc = "up" /\ boot.seed = "resumeCheck"
    /\ LET b == [boot EXCEPT !.ret = "none"]
       IN  boot' =
             IF Seeds(boot.ret, boot.exists)
             THEN IF ~b.disk.exists
                  THEN [b EXCEPT !.seed = "done", !.outcome = "noFile"]
                  ELSE LET b1 == [b EXCEPT !.attempted = TRUE, !.attempts = @ + 1]
                       IN  IF ~b.disk.parses
                           THEN AfterError([b1 EXCEPT !.seed = "done", !.outcome = "failed"],
                                           "parse")
                           ELSE SeedLoop(b1)
             ELSE IF boot.ret = "error"
             THEN IF env.DB_PROVIDER = "SUPABASE"
                  THEN [b EXCEPT !.seed = "done", !.outcome = "checkFailed"]
                  ELSE AfterError([b EXCEPT !.seed = "done", !.outcome = "checkFailed"],
                                  "check")
             ELSE [b EXCEPT !.seed = "done", !.outcome = "exists"]
    /\ UNCHANGED << env, store, now, sync, hist, lastRun, lastWrite, query, calls,
                    dFeature, dLevel, dResult, status, fcRows, fcOut, search >>

\* the statement of upsertFeature, issued by the seeding, commits
DbSeedUpsertCommits ==
    /\ boot.proc = "up" /\ boot.seed = "awaitUpsert"
    /\ boot.call.kode.t = "string"
    /\ LET c == boot.call
       IN  store' = Upsert(store, c.kode.v, c.nama, c.level, c.geometry, now + 1)
    /\ now' = now + 1
    /\ boot' = [boot EXCEPT !.seed = "resumeUpsert", !.ret = "ok", !.wrote = @ + 1]
    /\ UNCHANGED << env, sync, hist, lastRun, lastWrite, query, calls,
                    dFeature, dLevel, dResult, status, fcRows, fcOut, search >>

\* ... fails: the database cannot be reached, or the key is NULL
DbSeedUpsertFails ==
    /\ boot.proc = "up" /\ boot.seed = "awaitUpsert"
    /\ boot' = [boot EXCEPT !.seed = "resumeUpsert", !.ret = "error"]
    /\ UNCHANGED << env, store, now, sync, hist, lastRun, lastWrite, query, calls,
                    dFeature, dLevel, dResult, status, fcRows, fcOut, search >>

\* the loop after await upsertFeature(...): the catch block, or
\* processed++ and the next feature
SeedResumeUpsert ==
    /\ boot.proc = "up" /\ boot.seed = "resumeUpsert"
    /\ boot' =
         IF boot.ret = "error"
         THEN AfterError([boot EXCEPT !.seed = "done", !.outcome = "failed",
                                      !.ret = "none", !.call = NoCall], "upsert")
         ELSE SeedLoop([boot EXCEPT !.processed = @ + 1, !.ki = @ + 1,
                                    !.ret = "none", !.call = NoCall])
    /\ UNCHANGED << env, store, now, sync, hist, lastRun, lastWrite, query, calls,
                    dFeature, dLevel, dResult, status, fcRows, fcOut, search >>

\* app.listen(PORT) has run and the process lives
Serving == boot.proc = "up" /\ boot.listening


NotBuilt == [built |-> FALSE, features |-> << >>]

NotApplied == [applied |-> FALSE, out |-> Thrown]

Init ==
    /\ env \in Envs
    /\ store = {}
    /\ now = 0
    /\ sync = [r \in Reqs |-> Idle]
    /\ hist = [r \in Reqs |-> NoHist]
    /\ lastRun = NoRun
    /\ lastWrite = {}
    /\ query = QIdle
    /\ calls = 0
    /\ dFeature = FileAceh.features[1]
    /\ dLevel = 1
    /\ dResult = NotApplied
    /\ status = SIdle
    /\ fcRows = << >>
    /\ fcOut = NotBuilt
    /\ search = SrIdle
    /\ boot = NoBoot

Next ==
    \/ \E r \in Reqs, code \in SyncCodes : SyncRequest(r, code)
    \/ \E r \in Reqs : DbUpsertFails(r)
    \/ \E r \in Reqs : DbUpsertCommits(r)
    \/ \E r \in Reqs : SyncResume(r)
    \/ \E code \in QueryCodes : QueryRequest(code)
    \/ DbFetchAnswers
    \/ DbFetchFails
    \/ QueryResume

Spec == Init /\ [][Next]_vars

\* ------------------------------------------------- the code deriver alone
KecDigits == {"0", "1", "5"}

\* the strings over KecDigits of at most n characters
RECURSIVE StringsUpTo(_)
StringsUpTo(n) ==
    IF n = 0 THEN {<<>>}
    ELSE LET S == StringsUpTo(n - 1)
         IN  S \cup {Append(x, d) : x \in S, d \in KecDigits}

CodeKeys == {"kd_propinsi", "kd_dati2", "kd_kecamatan", "kd_kelurahan"}

NameKeys == {"nm_propinsi", "nm_dati2", "nm_kecamatan", "nm_kelurahan"}

\* the property bags drawn for the code deriver: any subset of the code
\* keys, the names present or not
RawBags ==
    {[k \in K \cup N |->
         CASE k = "kd_propinsi" -> top
           [] k = "kd_dati2" -> dati
           [] k = "kd_kecamatan" -> kec
           [] k = "kd_kelurahan" -> kel
           [] k = "nm_propinsi" -> <<"A", "c", "e", "h">>
           [] k = "nm_dati2" -> <<"S", "i", "m">>
           [] k = "nm_kecamatan" -> <<"A", "l", "a">>
           [] OTHER -> <<"L", "a">>] :
       K \in SUBSET CodeKeys, N \in {{}, NameKeys},
       top \in {S11, <<"0", "1", "1">>}, dati \in {S01, <<"1">>},
       kec \in StringsUpTo(MaxKecLen),
       kel \in {<<"0", "0", "3">>, <<"3">>}}

InitDerive ==
    /\ env = [DB_PROVIDER |-> "POSTGRES", supabaseAdmin |-> FALSE]
    /\ store = {}
    /\ now = 0
    /\ sync = [r \in Reqs |-> Idle]
    /\ hist = [r \in Reqs |-> NoHist]
    /\ lastRun = NoRun
    /\ lastWrite = {}
    /\ query = QIdle
    /\ calls = 0
    /\ dFeature \in {Feature(p, GeomA) : p \in RawBags}
    /\ dLevel \in 1..4
    /\ dResult = NotApplied
    /\ status = SIdle
    /\ fcRows = << >>
    /\ fcOut = NotBuilt
    /\ search = SrIdle
    /\ boot = NoBoot

\* const { kode, nama } = transformProperties(feature, level)
Derive ==
    /\ ~dResult.applied
    /\ dResult' = [applied |-> TRUE, out |-> transformProperties(dFeature, dLevel)]
    /\ UNCHANGED << env, store, now, sync, hist, lastRun, lastWrite, query, calls,
                    dFeature, dLevel, status, fcRows, fcOut,
                    search, boot >>

NextDerive == Derive

SpecDerive == InitDerive /\ [][NextDerive]_vars

\* ------------------------------------- the map's reads beside the ETL
S11_ == S11 \o <<"_">>

S1101_kel == S1101 \o <<"_", "k", "e", "l">>

\* the codes posted here: the file of Aceh alone, the kelurahan file of
\* 11.01 alone, all of 11.01, and the files of 21 and 210
ReadSyncCodes == { S11_, S1101_kel, S1101, S21 }

\* 11.1 is a code of two segments
ReadQueryCodes ==
    { << >>, S11, S21, S11 \o Dot \o <<"1">>, S1101 \o Dot \o <<"0", "5">> }

NextRead ==
    \/ \E code \in ReadSyncCodes : SyncRequest(1, code)
    \/ DbUpsertFails(1)
    \/ DbUpsertCommits(1)
    \/ SyncResume(1)
    \/ \E code \in ReadQueryCodes : QueryRequest(code)
    \/ DbFetchAnswers
    \/ DbFetchFails
    \/ QueryResume
    \/ \E code \in StatusCodes : StatusRequest(code)
    \/ DbStatusAnswers
    \/ DbStatusFails
    \/ StatusResume

SpecRead == Init /\ [][NextRead]_vars

\* --------------------------------------------- toFeatureCollection alone
\* geom as a row can carry it: a string that parses, a string that does
\* not, a json value
FcGeoms ==
    {[kind |-> "string", parses |-> TRUE, value |-> StoredGeometry(g)] : g \in {GeomA, GeomB}}
      \cup {[kind |-> "object", parses |-> TRUE, value |-> StoredGeometry(g)] :
              g \in {GeomA, GeomB}}
      \cup {[kind |-> "string", parses |-> FALSE, value |-> NullGeometry]}

FcRowSet == {[id |-> k, name |-> Str(<<"A">>), geom |-> g] : k \in {S11, S21}, g \in FcGeoms}

\* the sequences over S of at most n elements
RECURSIVE SeqsUpTo(_, _)
SeqsUpTo(S, n) ==
    IF n = 0 THEN {<< >>}
    ELSE LET T == SeqsUpTo(S, n - 1)
         IN  T \cup {Append(x, e) : x \in T, e \in S}

InitFC ==
    /\ env = [DB_PROVIDER |-> "POSTGRES", supabaseAdmin |-> FALSE]
    /\ store = {}
    /\ now = 0
    /\ sync = [r \in Reqs |-> Idle]
    /\ hist = [r \in Reqs |-> NoHist]
    /\ lastRun = NoRun
    /\ lastWrite = {}
    /\ query = QIdle
    /\ calls = 0
    /\ dFeature = FileAceh.features[1]
    /\ dLevel = 1
    /\ dResult = NotApplied
    /\ status = SIdle
    /\ fcRows \in SeqsUpTo(FcRowSet, MaxRows)
    /\ fcOut = NotBuilt
    /\ search = SrIdle
    /\ boot = NoBoot

\* result.<key>.data = toFeatureCollection(rows)
BuildFC ==
    /\ ~fcOut.built
    /\ fcOut' = [built |-> TRUE, features |-> toFeatureCollection(fcRows)]
    /\ UNCHANGED << env, store, now, sync, hist, lastRun, lastWrite, query, calls,
                    dFeature, dLevel, dResult, status, fcRows,
                    search, boot >>

NextFC == BuildFC

SpecFC == InitFC /\ [][NextFC]_vars

\* ------------------------------------------------ the search box alone
\* a table entry: the last characters of its code, its name, its level
Entry(k, nama, level) == [kode |-> S11 \o Dot \o k, nama |-> Str(nama), level |-> level]

\* the regions the table is filled from: twelve names hold "ace" in some
\* letter case, two of them are the same name at the same level
Pool ==
    << [kode |-> S11, nama |-> Str(<<"A", "c", "e", "h">>), level |-> 1],
       Entry(<<"0", "1">>, <<"A", "b", "e">>, 2),
       Entry(<<"0", "2">>, <<"A", "c", "e", "b">>, 3),
       Entry(<<"0", "3">>, <<"A", "c", "e", "b">>, 3),
       Entry(<<"0", "4">>, <<"S", "i", "m">>, 2),
       Entry(<<"0", "5">>, <<"A", "C", "E">>, 2),
       Entry(<<"0", "6">>, <<"P", "a", "c", "e">>, 2),
       Entry(<<"0", "7">>, <<"a", "c", "e", "A">>, 4),
       Entry(<<"0", "8">>, <<"A", "c", "e", "a">>, 2),
       Entry(<<"0", "9">>, <<"A", "c", "e", "c">>, 3),
       Entry(<<"1", "0">>, <<"A", "c", "e", "d">>, 2),
       Entry(<<"1", "1">>, <<"A", "c", "e", "e">>, 4),
       Entry(<<"1", "2">>, <<"A", "c", "e", "f">>, 3),
       Entry(<<"1", "3">>, <<"A", "c", "e", "g">>, 2) >>

\* the table after the entries were upserted in turn
RECURSIVE StoreOf(_)
StoreOf(es) ==
    IF es = << >> THEN {}
    ELSE LET e == es[Len(es)]
         IN  Upsert(StoreOf(SubSeq(es, 1, Len(es) - 1)), e.kode, e.nama, e.level,
                    GeomA, Len(es))

\* es without its d-th entry; all of es when d = 0
Without(es, d) ==
    IF d = 0 THEN es ELSE SubSeq(es, 1, d - 1) \o SubSeq(es, d + 1, Len(es))

\* the tables searched: the first n regions with at most one left out
SearchStores ==
    UNION {{StoreOf(Without(SubSeq(Pool, 1, n), d)) : d \in 0..n} : n \in 0..Len(Pool)}

InitSearch ==
    /\ env \in Envs
    /\ store \in SearchStores
    /\ now = Len(Pool)
    /\ sync = [r \in Reqs |-> Idle]
    /\ hist = [r \in Reqs |-> NoHist]
    /\ lastRun = NoRun
    /\ lastWrite = {}
    /\ query = QIdle
    /\ calls = 0
    /\ dFeature = FileAceh.features[1]
    /\ dLevel = 1
    /\ dResult = NotApplied
    /\ status = SIdle
    /\ fcRows = << >>
    /\ fcOut = NotBuilt
    /\ search = SrIdle
    /\ boot = NoBoot

NextSearch ==
    \/ \E q \in SearchTexts : SearchRequest(q)
    \/ DbSearchAnswers
    \/ DbSearchFails
    \/ SearchResume

SpecSearch == InitSearch /\ [][NextSearch]_vars

\* ------------------------------------------ the process from its start
InitBoot ==
    /\ env \in Envs
    /\ store = {}
    /\ now = 0
    /\ sync = [r \in Reqs |-> Idle]
    /\ hist = [r \in Reqs |-> NoHist]
    /\ lastRun = NoRun
    /\ lastWrite = {}
    /\ query = QIdle
    /\ calls = 0
    /\ dFeature = FileAceh.features[1]
    /\ dLevel = 1
    /\ dResult = NotApplied
    /\ status = SIdle
    /\ fcRows = << >>
    /\ fcOut = NotBuilt
    /\ search = SrIdle
    /\ \E d \in SeedDisks : boot = [NoBoot EXCEPT !.disk = d]

\* the requests sent to the started process, one at a time: the files of
\* 31, the map and the counts of 11, the text ace
BootSyncCodes == { S31 }

BootQueryCodes == { S11 }

BootStatusCodes == { S11 }

BootSearchTexts == { <<"a", "c", "e">> }

\* seedInitialData has returned
Seeded == boot.seed = "done"

\* initDB and seedInitialData of the running process
BootSteps ==
    \/ DbInitAnswers
    \/ DbInitFails
    \/ InitResume
    \/ DbCheckAnswers
    \/ DbCheckFails
    \/ SeedResumeCheck
    \/ DbSeedUpsertCommits
    \/ DbSeedUpsertFails
    \/ SeedResumeUpsert

\* POST /api/db/sync of the running process
BootSync ==
    \/ Serving /\ Quiet /\ \E code \in BootSyncCodes : SyncRequest(1, code)
    \/ Serving /\ DbUpsertFails(1)
    \/ Serving /\ DbUpsertCommits(1)
    \/ Serving /\ SyncResume(1)

\* GET /api/search of the running process
BootSearch ==
    \/ Serving /\ Quiet /\ Seeded /\ \E q \in BootSearchTexts : SearchRequest(q)
    \/ Serving /\ DbSearchAnswers
    \/ Serving /\ DbSearchFails
    \/ Serving /\ SearchResume

\* the process started up to MaxStarts times, with the ETL calls at any
\* moment and searches once the seeding has returned
NextBoot ==
    \/ Start
    \/ BootSteps
    \/ BootSync
    \/ BootSearch

SpecBoot == InitBoot /\ [][NextBoot]_vars

\* ------------------------------------------ one process, every request
NextServe ==
    \/ boot.starts = 0 /\ Start
    \/ BootSteps
    \/ BootSync
    \/ Serving /\ Quiet /\ \E code \in BootQueryCodes : QueryRequest(code)
    \/ Serving /\ DbFetchAnswers
    \/ Serving /\ DbFetchFails
    \/ Serving /\ QueryResume
    \/ Serving /\ Quiet /\ \E code \in BootStatusCodes : StatusRequest(code)
    \/ Serving /\ DbStatusAnswers
    \/ Serving /\ DbStatusFails
    \/ Serving /\ StatusResume
    \/ Serving /\ Quiet /\ \E q \in BootSearchTexts : SearchRequest(q)
    \/ Serving /\ DbSearchAnswers
    \/ Serving /\ DbSearchFails
    \/ Serving /\ SearchResume

SpecServe == InitBoot /\ [][NextServe]_vars

\* ------------------------------------------------------------ properties
\* the last two characters of a string of at least two
Last2(x) == << x[Len(x) - 1], x[Len(x)] >>

\* the code keys a feature of the level has to carry
RequiredKeys(level) ==
    CASE level = 1 -> {"kd_propinsi"}
      [] level = 2 -> {"kd_propinsi", "kd_dati2"}
      [] level = 3 -> {"kd_propinsi", "kd_dati2", "kd_kecamatan"}
      [] OTHER -> CodeKeys

\* C1: at level 3, a kd_kecamatan of two characters or more contributes
\* exactly its last two characters to the identifier, whatever its length:
\* the identifier is kd_propinsi.kd_dati2.last2, and every other raw code
\* with the same last two characters gives the same identifier.
C1_Level3UsesLastTwo ==
    LET p == dFeature.properties IN
    (/\ dResult.applied
     /\ dLevel = 3
     /\ "kd_kecamatan" \in DOMAIN p
     /\ Len(p["kd_kecamatan"]) >= 2)
    => /\ ~dResult.out.threw
       /\ dResult.out.kode =
            Str(TemplateStr(Prop(p, "kd_propinsi")) \o Dot
                  \o TemplateStr(Prop(p, "kd_dati2")) \o Dot
                  \o Last2(p["kd_kecamatan"]))
       /\ \A c \in StringsUpTo(MaxKecLen) :
            (Len(c) >= 2 /\ Last2(c) = Last2(p["kd_kecamatan"]))
            => transformProperties(
                   [dFeature EXCEPT !.properties["kd_kecamatan"] = c], 3).kode
                 = dResult.out.kode

\* C1 witness: the padded raw code 0105 has been derived to 11.01.05
C1_Witness ==
    /\ dResult.applied
    /\ dLevel = 3
    /\ DOMAIN dFeature.properties = RequiredKeys(3) \cup NameKeys
    /\ dFeature.properties["kd_kecamatan"] = <<"0", "1", "0", "5">>
    /\ dResult.out.kode = Str(S1101 \o Dot \o <<"0", "5">>)

\* C2: at level 4 the identifier is
\* kd_propinsi.kd_dati2.last2(kd_kecamatan).("2" + kd_kelurahan), the leaf
\* segment being the literal 2 followed by the raw code unmodified, and the
\* name is nm_kelurahan.
C2_Level4LeafPrefixed ==
    LET p == dFeature.properties IN
    (/\ dResult.applied
     /\ dLevel = 4
     /\ RequiredKeys(4) \subseteq DOMAIN p)
    => /\ ~dResult.out.threw
       /\ dResult.out.kode =
            Str(p["kd_propinsi"] \o Dot \o p["kd_dati2"] \o Dot
                  \o (IF Len(p["kd_kecamatan"]) >= 2 THEN Last2(p["kd_kecamatan"])
                      ELSE p["kd_kecamatan"])
                  \o Dot \o <<"2">> \o p["kd_kelurahan"])
       /\ dResult.out.nama = Prop(p, "nm_kelurahan")

\* C2 witness: the raw leaf code 003 has been derived to the segment 2003
C2_Witness ==
    /\ dResult.applied
    /\ dLevel = 4
    /\ RequiredKeys(4) \subseteq DOMAIN dFeature.properties
    /\ dFeature.properties["kd_kelurahan"] = <<"0", "0", "3">>
    /\ dResult.out.kode =
         Str(S1101 \o Dot \o <<"0", "5">> \o Dot \o <<"2", "0", "0", "3">>)
    /\ dResult.out.nama = Str(<<"L", "a">>)

\* C3: at level 1 the identifier is the raw kd_propinsi and the name
\* nm_propinsi; at level 2 the identifier is kd_propinsi.kd_dati2 and the
\* name nm_dati2; the raw codes are neither truncated nor padded.
C3_Levels1And2Verbatim ==
    LET p == dFeature.properties IN
    /\ (dResult.applied /\ dLevel = 1 /\ RequiredKeys(1) \subseteq DOMAIN p)
       => /\ ~dResult.out.threw
          /\ dResult.out.kode = Str(p["kd_propinsi"])
          /\ dResult.out.nama = Prop(p, "nm_propinsi")
    /\ (dResult.applied /\ dLevel = 2 /\ RequiredKeys(2) \subseteq DOMAIN p)
       => /\ ~dResult.out.threw
          /\ dResult.out.kode = Str(p["kd_propinsi"] \o Dot \o p["kd_dati2"])
          /\ dResult.out.nama = Prop(p, "nm_dati2")

\* C3 witness: a level-2 feature with a three-character kd_propinsi and a
\* one-character kd_dati2 has been derived to 011.1
C3_Witness ==
    /\ dResult.applied
    /\ dLevel = 2
    /\ dResult.out.kode = Str(<<"0", "1", "1", ".", "1">>)
    /\ dResult.out.nama = Str(<<"S", "i", "m">>)

\* C4: when a code key required for the level is absent, the derivation
\* raises no exception and returns an identifier the caller recognises as
\* a failure (empty or undefined).
C4_AbsentKeyGivesEmptyIdentifier ==
    (dResult.applied /\ ~(RequiredKeys(dLevel) \subseteq DOMAIN dFeature.properties))
    => /\ ~dResult.out.threw
       /\ dResult.out.kode \in {Str(<<>>), Undefined}

\* C5: the store holds one row per identifier, and a second run of the same
\* ingestion (same code, same files, the store as the first run left it)
\* leaves the number of rows unchanged and, once it has completed, the name
\* and geometry of every identifier as they were after the first run.
C5_IngestIdempotent ==
    /\ \A a, b \in store : a.kode = b.kode => a = b
    /\ \A r \in Reqs :
         (sync[r].pc = "done" /\ hist[r].second /\ hist[r].solo)
         => /\ hist[r].endCount = hist[r].startCount
            /\ sync[r].resp.status = 200 => hist[r].end = hist[r].start

\* C5 witness: a second, undisturbed run that upserted at least three
\* features has completed
C5_Witness ==
    \E r \in Reqs :
        /\ sync[r].pc = "done"
        /\ sync[r].resp.status = 200
        /\ hist[r].second
        /\ hist[r].solo
        /\ hist[r].upserts >= 3
        /\ hist[r].end = hist[r].start

\* C6: an upsert of an absent identifier inserts one row; an upsert of a
\* stored identifier overwrites that row's name, geometry and updated_at and
\* keeps its identifier and created_at; every other row stays as it is.
C6_UpsertFrame ==
    [][\A r \in Reqs :
         (sync[r].pc = "awaitUpsert" /\ sync'[r].pc = "resume" /\ sync'[r].ret = "ok")
         => LET c == sync[r].call
                k == c.kode.v
                olds == {row \in store : row.kode = k}
                news == {row \in store' : row.kode = k}
            IN  /\ {row \in store : row.kode # k} = {row \in store' : row.kode # k}
                /\ Cardinality(news) = 1
                /\ \A n \in news :
                     /\ n.nama = c.nama
                     /\ n.geometry = StoredGeometry(c.geometry)
                     /\ n.updated_at = now'
                     /\ olds = {} => (n.created_at = now' /\ n.level = c.level)
                     /\ \A o \in olds : n.created_at = o.created_at
      ]_vars

\* C6 witness: a stored row has been overwritten (its updated_at is later
\* than its created_at) next to another row
C6_Witness ==
    /\ Cardinality(store) >= 2
    /\ \E row \in store : row.updated_at > row.created_at

\* C7: whatever the interleaving of the upserts of concurrent ETL calls,
\* every identifier that was written has exactly one row, and that row
\* carries the name and geometry of the upsert that committed last.
C7_LastCommitWins ==
    \A w \in lastWrite :
        /\ Cardinality({row \in store : row.kode = w.kode}) = 1
        /\ \A row \in store :
             row.kode = w.kode
             => row.nama = w.nama /\ row.geometry = StoredGeometry(w.geometry)

\* C7 witness: two overlapping calls have both written one identifier, with
\* different geometries, and the earlier writer is still running
C7_Witness ==
    \E w \in lastWrite :
        /\ w.prevBy \in Reqs \ {w.by}
        /\ w.prevGeometry # w.geometry
        /\ ~hist[w.by].solo
        /\ sync[w.prevBy].pc \in {"awaitUpsert", "resume"}

\* C8: a feature whose derived identifier is empty is skipped: no upsert is
\* issued for it and no row with an empty key is written.
C8_EmptyIdentifierSkipped ==
    /\ \A row \in store : row.kode # <<>>
    /\ \A r \in Reqs :
         sync[r].pc = "awaitUpsert" => sync[r].call.kode \notin {Str(<<>>), Undefined}

\* C9: the counter of a call is the number of its upserts that have
\* returned successfully (an upsert that committed but has not yet returned
\* is not counted), and a successful call reports that number.
C9_CountIsCompletedUpserts ==
    \A r \in Reqs :
        /\ sync[r].pc = "awaitUpsert" => sync[r].totalProcessed = hist[r].upserts
        /\ (sync[r].pc = "resume" /\ sync[r].ret = "ok")
           => sync[r].totalProcessed = hist[r].upserts - 1
        /\ (sync[r].pc = "resume" /\ sync[r].ret = "error")
           => sync[r].totalProcessed = hist[r].upserts
        /\ (sync[r].pc = "done" /\ sync[r].resp.status = 200)
           => /\ sync[r].resp.hasProcessed
              /\ sync[r].resp.processed = hist[r].upserts
              /\ sync[r].resp.processed = sync[r].totalProcessed

\* C9 witness: a call over four files has answered with processed = 5
C9_Witness ==
    \E r \in Reqs :
        /\ sync[r].pc = "done"
        /\ sync[r].resp.status = 200
        /\ Len(sync[r].files) = 4
        /\ sync[r].resp.processed = 5
        /\ hist[r].upserts = 5

S110105 == S1101 \o Dot \o <<"0", "5">>

S1101052003 == S110105 \o Dot \o <<"2", "0", "0", "3">>

\* the fetch plans of the four depths: self, context and children fetches
\* as (slot, level, identifier looked up)
ExpectedPlan(code) ==
    CASE code = S11 ->
           << Fetch("provinsi", 1, S11), Fetch("kabupaten", 2, S11) >>
      [] code = S1101 ->
           << Fetch("kabupaten", 2, S1101), Fetch("kecamatan", 3, S1101),
              Fetch("kelurahan", 4, S1101) >>
      [] code = S110105 ->
           << Fetch("kabupaten", 2, S1101), Fetch("kecamatan", 3, S110105),
              Fetch("kelurahan", 4, S110105) >>
      [] code = S1101052003 ->
           << Fetch("kecamatan", 3, S110105), Fetch("kelurahan", 4, S1101052003) >>
      [] OTHER -> << >>

\* C10: the queries for 11, 11.01, 11.01.05 and 11.01.05.2003 fetch
\* {self 1, children 2}, {self 2, children 3 and 4}, {context 2, self 3,
\* children 4} and {context 3, self 4}: at any moment the fetches issued are
\* a prefix of that plan (none outside it), and a query that answers 200 has
\* issued exactly the plan.
C10_DepthClassification ==
    query.code \in {S11, S1101, S110105, S1101052003}
    => LET plan == ExpectedPlan(query.code) IN
       /\ Len(query.fetched) <= Len(plan)
       /\ query.fetched = SubSeq(plan, 1, Len(query.fetched))
       /\ (query.pc = "done" /\ query.status = 200) => query.fetched = plan

\* C10 witness: the query for 11.01.05 has answered after its three fetches,
\* with the kabupaten context, the kecamatan itself and its kelurahan found
C10_Witness ==
    /\ query.pc = "done"
    /\ query.status = 200
    /\ query.code = S110105
    /\ Len(query.fetched) = 3
    /\ query.result.kabupaten.data
    /\ query.result.kecamatan.data
    /\ query.result.kelurahan.data

\* ---------------------------------------------- properties of the reads
\* the number of dot-separated segments of an identifier
Segments(code) == Cardinality({i \in 1..Len(code) : code[i] = "."}) + 1

\* the level an identifier of that many segments stands for
SelfLevel(code) == IF Segments(code) >= 4 THEN 4 ELSE Segments(code)

\* the identifier cut after its first n segments
FirstSegments(code, n) ==
    LET dots == {i \in 1..Len(code) : code[i] = "."}
        cut == {i \in dots : Cardinality({j \in dots : j < i}) = n - 1}
    IN  IF cut = {} THEN code ELSE SubSeq(code, 1, (CHOOSE i \in cut : TRUE) - 1)

\* the levels fetched by the plan of each depth
PlanLevels(level) ==
    CASE level = 1 -> {1, 2}
      [] level = 2 -> {2, 3, 4}
      [] level = 3 -> {2, 3, 4}
      [] OTHER -> {3, 4}

\* C11: the fetch plan follows the number of segments of the identifier
\* alone: a query that answers for a non-empty identifier of 1, 2, 3, or 4
\* and more segments has fetched the levels of the level-1, -2, -3, -4 plan,
\* its own level by the identifier itself, whatever the width of the
\* segments.
C11_PlanBySegmentCount ==
    (query.pc = "done" /\ query.status = 200 /\ query.code # << >>)
    => /\ {query.fetched[j].level : j \in 1..Len(query.fetched)}
            = PlanLevels(SelfLevel(query.code))
       /\ \E j \in 1..Len(query.fetched) :
             /\ query.fetched[j].level = SelfLevel(query.code)
             /\ query.fetched[j].prefix = query.code

\* C12: a children fetch (a fetch of a level below the query's own) returns
\* only rows whose identifier is the query identifier, then ".", then a
\* suffix; a row whose identifier merely starts with the same characters is
\* not returned.
C12_ChildrenSeparatorAware ==
    (/\ query.pc = "resume"
     /\ query.ret = "ok"
     /\ query.plan[query.i].level > SelfLevel(query.code))
    => \A j \in 1..Len(query.rows) :
          /\ StartsWith(query.rows[j].id, query.code \o Dot)
          /\ Len(query.rows[j].id) > Len(query.code) + 1

\* C13: the self fetch returns only the row whose identifier equals the
\* query identifier, the context fetch only the row whose identifier equals
\* the query identifier cut to the parent level's segments; no longer
\* identifier beginning with that value is returned.
C13_SelfAndContextExact ==
    (/\ query.pc = "resume"
     /\ query.ret = "ok"
     /\ query.plan[query.i].level <= SelfLevel(query.code))
    => \A j \in 1..Len(query.rows) :
          query.rows[j].id = FirstSegments(query.code, query.plan[query.i].level)

\* C14: a fetch that fails does not abort the query: every fetch of the plan
\* is still issued, the key of the failed fetch stays unset, and the bundle
\* is returned (200) unless every fetch of the plan failed.
C14_FailedFetchDoesNotAbort ==
    (query.pc = "done" /\ query.nfail > 0)
    => /\ query.fetched = query.plan
       /\ query.nfail < Len(query.plan) => query.status = 200

LevelKeys == {"provinsi", "kabupaten", "kecamatan", "kelurahan"}

\* C15: in the bundle of a query that answers 200 a level key holds a
\* feature collection exactly when the fetch of that key returned a row;
\* the collection has one feature per row, in row order, with the row's
\* geometry and {name, id}; a key whose fetch returned nothing, or that no
\* fetch was planned for, stays unset.
C15_SlotsMirrorFetches ==
    (query.pc = "done" /\ query.status = 200)
    => \A k \in LevelKeys :
          LET rows == query.got[k]
              slot == query.result[k]
          IN  /\ slot.data <=> Len(rows) > 0
              /\ Len(slot.features) = Len(rows)
              /\ \A i \in 1..Len(rows) :
                    /\ slot.features[i].properties
                         = [name |-> rows[i].name, id |-> rows[i].id]
                    /\ slot.features[i].geometry = rows[i].geom.value
              /\ (\A j \in 1..Len(query.plan) : query.plan[j].slot # k)
                    => ~slot.data

\* C15 witness: the query for 21 has answered with the two level-1 rows
\* found in its provinsi key, a kabupaten collection, and the two keys it
\* plans no fetch for unset
C15_Witness ==
    /\ query.pc = "done"
    /\ query.status = 200
    /\ query.code = S21
    /\ Len(query.got.provinsi) = 2
    /\ Len(query.result.provinsi.features) = 2
    /\ query.result.kabupaten.data
    /\ ~query.result.kecamatan.data
    /\ ~query.result.kelurahan.data

\* C16: toFeatureCollection keeps one feature per row with the row's
\* {name, id}; a geometry that came as a string is parsed, one that came as
\* a json value is passed on as it is, and a string that does not parse
\* gives a null geometry for that feature alone, the others being built as
\* usual.
C16_GeometryParsedOrNull ==
    fcOut.built
    => /\ Len(fcOut.features) = Len(fcRows)
       /\ \A i \in 1..Len(fcRows) :
             LET g == fcRows[i].geom
                 f == fcOut.features[i]
             IN  /\ f.properties = [name |-> fcRows[i].name, id |-> fcRows[i].id]
                 /\ g.kind = "object" => f.geometry = g.value
                 /\ (g.kind = "string" /\ g.parses) => f.geometry = g.value
                 /\ (g.kind = "string" /\ ~g.parses) => f.geometry = NullGeometry

\* C16 witness: a collection built from a row whose string does not parse
\* followed by a row whose string parses
C16_Witness ==
    /\ fcOut.built
    /\ Len(fcRows) = 2
    /\ fcRows[1].geom.kind = "string" /\ ~fcRows[1].geom.parses
    /\ fcRows[2].geom.kind = "string" /\ fcRows[2].geom.parses
    /\ fcOut.features[1].geometry = NullGeometry
    /\ fcOut.features[2].geometry = StoredGeometry(GeomA)

Direct == [DB_PROVIDER |-> "POSTGRES", supabaseAdmin |-> FALSE]

Gateway == [DB_PROVIDER |-> "SUPABASE", supabaseAdmin |-> TRUE]

\* what one fetch of backend e leaves in an unset key, or that it threw
FetchOutcome(e, ret, ord) ==
    LET a == fetchGeoData(e, ret, [i \in 1..Len(ord) |-> SelectedBy(e, ord[i])])
    IN  [threw |-> a.threw, slot |-> SlotData(Unset, a.rows)]

\* C17: the two backends are observationally equivalent: over the same
\* table, the same fetch with the same outcome of the store call (answered
\* in the same row order, or failed) gives the handler the same result or
\* the same error under the direct connection and under the gateway.
C17_BackendsEquivalent ==
    query.pc = "awaitFetch"
    => LET f == query.plan[query.i] IN
       \A ret \in {"ok", "error"} :
         \A ord \in Orderings(RowsByLevel(store, f.level, f.prefix)) :
            FetchOutcome(Direct, ret, ord) = FetchOutcome(Gateway, ret, ord)

\* the one table a call read, when all its reads saw the same
TheSeen(seen) == CHOOSE S \in seen : TRUE

SAceh == <<"A", "c", "e", "h">>

\* the table after the one level-1 feature 11 / Aceh went into an empty one
AcehAlone(rows) ==
    /\ Cardinality(rows) = 1
    /\ \A r \in rows : r.kode = S11 /\ r.nama = Str(SAceh) /\ r.level = 1

\* C19: over the table that holds the one ingested level-1 region 11 /
\* Aceh, status for 11 (its statements answered) reports available with a
\* level-1 count of 1, and the query for 11 (its fetches answered) returns a
\* provinsi collection of exactly one feature, named Aceh with id 11.
C19_AcehEndToEnd ==
    /\ (/\ status.pc = "done"
        /\ status.code = S11
        /\ ~status.error
        /\ status.nfail = 0
        /\ Cardinality(status.seen) = 1
        /\ AcehAlone(TheSeen(status.seen)))
       => /\ status.stats.available
          /\ status.stats.provinsi = 1
    /\ (/\ query.pc = "done"
        /\ query.status = 200
        /\ query.code = S11
        /\ query.nfail = 0
        /\ Cardinality(query.seen) = 1
        /\ AcehAlone(TheSeen(query.seen)))
       => /\ query.result.provinsi.data
          /\ Len(query.result.provinsi.features) = 1
          /\ query.result.provinsi.features[1].properties
               = [name |-> Str(SAceh), id |-> S11]

\* C19 witness: the ETL call for the file of Aceh has answered 200 with one
\* feature processed, and both status and the query for 11 have answered
\* over that table
C19_Witness ==
    /\ sync[1].pc = "done" /\ sync[1].resp.status = 200
    /\ sync[1].resp.processed = 1
    /\ AcehAlone(store)
    /\ status.pc = "done" /\ status.code = S11 /\ status.seen = {store}
    /\ status.stats.available /\ status.stats.provinsi = 1
    /\ query.pc = "done" /\ query.status = 200 /\ query.code = S11
    /\ query.seen = {store}
    /\ Len(query.result.provinsi.features) = 1

\* the level-4 rows below 11.01.05
Leaves(rows) == {r \in rows : r.level = 4 /\ StartsWith(r.kode, S110105 \o Dot)}

\* a query for 11.01.05 that answered, its fetches read one table in which
\* the level-4 batch below 11.01.05 had been ingested
LeafQueryDone ==
    /\ query.pc = "done"
    /\ query.status = 200
    /\ query.code = S110105
    /\ query.nfail = 0
    /\ Cardinality(query.seen) = 1
    /\ Leaves(TheSeen(query.seen)) # {}

FeatureIds(slot) == {slot.features[i].properties.id : i \in 1..Len(slot.features)}

RECURSIVE FlatFrom(_, _)
FlatFrom(files, i) ==
    IF i > Len(files) THEN << >>
    ELSE [k \in 1..Len(Directory[files[i]].features) |-> << files[i], k >>]
            \o FlatFrom(files, i + 1)

FlatFeatures(code) == FlatFrom(MatchedFiles(code), 1)

\* C28: within one ETL call the upserts are issued one after the other, in
\* the order of the features of the matched files taken in list order: the
\* features an upsert was issued for are a prefix of that list, and the
\* statements issued exceed the statements completed (committed or failed)
\* by one exactly while the call awaits its upsert, by none otherwise.
C28_UpsertsSequential ==
    \A r \in Reqs :
        LET h == hist[r]
            inFlight == Len(h.order) - (h.upserts + h.fails)
        IN  sync[r].pc # "idle"
            => /\ Len(h.order) <= Len(FlatFeatures(sync[r].code))
               /\ h.order = SubSeq(FlatFeatures(sync[r].code), 1, Len(h.order))
               /\ inFlight = IF sync[r].pc = "awaitUpsert" THEN 1 ELSE 0

\* C28 witness: two ETL calls each await an upsert of their own, the first
\* in its second file
C28_Witness ==
    /\ sync[1].pc = "awaitUpsert"
    /\ sync[2].pc = "awaitUpsert"
    /\ Len(hist[1].order) >= 3
    /\ hist[1].order[3][1] # hist[1].order[1][1]
    /\ hist[1].upserts = Len(hist[1].order) - 1

\* the level a file name stands for
NameLevel(name) ==
    IF Len(name) >= 18 /\ SubSeq(name, Len(name) - 17, Len(name)) = SufKecamatan THEN 3
    ELSE IF Len(name) >= 18 /\ SubSeq(name, Len(name) - 17, Len(name)) = SufKelurahan
    THEN 4
    ELSE IF Len(name) >= 4 /\ IsDigit(name[1]) /\ IsDigit(name[2]) /\ name[3] = "_" THEN 1
    ELSE 2

\* C29: the level of an upsert is the level of the file's name alone
\* (..._kecamatan.geojson 3, else ..._kelurahan.geojson 4, else two digits
\* and "_" 1, else 2), whatever the feature holds, the same for every
\* feature of the file and within 1..4; a row the statement inserts is
\* stored with that level.
C29_LevelFromFileName ==
    [][\A r \in Reqs :
          (sync[r].pc = "awaitUpsert" /\ sync'[r].pc = "resume" /\ sync'[r].ret = "ok")
          => LET lvl == NameLevel(Directory[sync[r].files[sync[r].fi]].name)
                 k == sync[r].call.kode.v
             IN  /\ lvl \in 1..4
                 /\ sync[r].call.level = lvl
                 /\ (\A x \in store : x.kode # k)
                       => \E x \in store' : x.kode = k /\ x.level = lvl]_vars

\* C29 witness: the upsert of the kelurahan 11.01.05.2003 has committed at
\* level 4
C29_Witness ==
    \E r \in Reqs :
        /\ sync[r].pc = "resume"
        /\ sync[r].ret = "ok"
        /\ sync[r].call.level = 4
        /\ \E x \in store : x.kode = S1101052003 /\ x.level = 4

\* the identifier the upsert of feature k of file f carries
OrderKode(e) == transformProperties(Directory[e[1]].features[e[2]],
                                    DetectLevel(Directory[e[1]].name)).kode.v

\* C30: an ETL call that has answered after one of its upserts failed
\* answers 500 without a processed count; the failed upsert is the last it
\* issued (no later feature of the file or of the following files), and the
\* identifiers its earlier upserts wrote are still stored.
C30_FailedUpsertStopsCall ==
    \A r \in Reqs :
        (sync[r].pc = "done" /\ hist[r].fails > 0)
        => /\ sync[r].resp.status = 500
           /\ ~sync[r].resp.hasProcessed
           /\ hist[r].fails = 1
           /\ Len(hist[r].order) = hist[r].upserts + 1
           /\ \A i \in 1..(Len(hist[r].order) - 1) :
                 \E x \in store : x.kode = OrderKode(hist[r].order[i])

\* C30 witness: a call for 11 has answered 500 after its fourth upsert
\* failed, in a later file than its first; the three rows it wrote are
\* stored
C30_Witness ==
    \E r \in Reqs :
        /\ sync[r].pc = "done"
        /\ sync[r].code = S11
        /\ hist[r].fails = 1
        /\ hist[r].upserts = 3
        /\ Len(hist[r].order) = 4
        /\ hist[r].order[4][1] # hist[r].order[1][1]
        /\ Cardinality(store) >= 2
        /\ sync[r].resp.status = 500

\* ------------------------------------ properties of an unreachable store
\* C24: when the store cannot be reached (every statement of the call
\* fails) the answer of status and of the hierarchy query differs from the
\* answer given when the store is reached and holds no matching row, under
\* either backend.
C24_UnavailableIsDistinct ==
    /\ (/\ status.pc = "done"
        /\ status.code # << >>
        /\ status.nfail > 0
        /\ status.seen = {})
       => ~(/\ status.http = 200
            /\ ~status.error
            /\ status.stats = [NoStats EXCEPT !.fileAvailable = HasFile(status.code)])
    /\ (/\ query.pc = "done"
        /\ query.nfail > 0
        /\ query.nfail = Len(query.fetched))
       => ~(query.status = 200 /\ query.result = EmptyBundle)

\* x holds sub as a run of consecutive characters
Contains(x, sub) ==
    \E i \in 0..(Len(x) - Len(sub)) : SubSeq(x, i + 1, i + Len(sub)) = sub

\* the rows of a table whose name contains the text, ignoring letter case
Containing(rows, q) ==
    {r \in rows : r.nama.t = "string" /\ Contains(Lower(r.nama.v), Lower(q))}

\* the listings the text may get from a table: the regions containing it,
\* by level and then name, cut after the tenth
Listings(rows, q) ==
    {[i \in 1..(IF Len(o) < 10 THEN Len(o) ELSE 10) |-> SearchRow(o[i])] :
        o \in SortedSeqs(Containing(rows, q))}

\* C25: a search answered from the table returns only regions whose name
\* contains the text ignoring letter case, by level ascending and then name
\* ascending, never more than ten of them, and the first ten of that order
\* when more than ten regions match
C25_SearchContainsOrderedCapped ==
    (search.pc = "done" /\ search.http = 200 /\ Len(search.q) >= 3) =>
        /\ Len(search.out) <= 10
        /\ \A i \in 1..Len(search.out) :
              Contains(Lower(search.out[i].name.v), Lower(search.q))
        /\ \A i \in 1..Len(search.out), j \in 1..Len(search.out) :
              i < j => \/ search.out[i].level < search.out[j].level
                       \/ /\ search.out[i].level = search.out[j].level
                          /\ ~NameLess(search.out[j].name.v, search.out[i].name.v)
        /\ \A S \in search.seen : search.out \in Listings(S, search.q)

\* the upsert seedInitialData issues for a feature of the seed file
SeedCall(f) ==
    [kode |-> Prop(f.properties, "kd_propinsi"), nama |-> Prop(f.properties, "nm_propinsi"),
     level |-> 1, geometry |-> f.geometry]

\* C21: seedInitialData runs at most once in a process; its check reports a
\* level-1 row exactly when the table it read holds one; unless the check
\* found none it issues no upsert and commits none; and a seeding that ran
\* to its end has upserted every feature of the seed file, in order, at
\* level 1
C21_SeedsOnlyWithoutProvince ==
    /\ boot.runs <= 1
    /\ \A S \in boot.seen : (boot.checked = "present") = (\E r \in S : r.level = 1)
    /\ boot.checked # "absent" => boot.order = << >> /\ boot.wrote = 0
    /\ boot.outcome = "seeded" =>
          /\ boot.checked = "absent"
          /\ boot.order = [i \in 1..Len(boot.disk.features) |-> SeedCall(boot.disk.features[i])]
          /\ boot.wrote = Len(boot.disk.features)

\* a second start finds a province stored and leaves the table alone, after
\* the first has seeded both features of the file
C21_Witness ==
    /\ boot.starts = 2 /\ boot.outcome = "exists" /\ boot.order = << >>
    /\ boot.disk = SeedTwo
    /\ \A f \in {SeedTwo.features[i] : i \in 1..2} :
          \E r \in store : r.kode = f.properties.kd_propinsi /\ r.level = 1

\* C22: a start that follows a seeding which threw part-way does not read
\* the seed file again
C22_NoSeedingAfterFailedSeed ==
    ~(boot.prevFailed /\ boot.attempted)

\* initDB has settled
InitSettled == boot.init \in {"ok", "failed", "skipped"}

\* C23: once started the process lives and listens whatever initDB and
\* seedInitialData ran into, and seedInitialData is entered only after
\* initDB has settled
C23_StartupFailuresDoNotStopServing ==
    /\ boot.starts > 0 => Serving
    /\ (boot.runs > 0 \/ boot.seed # "wait") => InitSettled

\* initDB failed, the seeding's upsert failed, and a search is answered by
\* the same process afterwards
C23_Witness ==
    /\ boot.starts = 1 /\ boot.init = "failed" /\ boot.outcome = "failed"
    /\ {"initDB", "upsert"} \subseteq boot.log
    /\ search.pc = "done" /\ search.http = 200

\* C26: the level of every stored region is the number of dot-separated
\* segments of its identifier
C26_LevelIsSegmentCount ==
    \A r \in store : r.level = Segments(r.kode)

Ids(rows) == {r.kode : r \in rows}

\* C27: no step removes an identifier from the table, and a step of the
\* status, search or hierarchy-query handler leaves the table as it was
C27_NothingDeletedReadsDoNotWrite ==
    [][/\ Ids(store) \subseteq Ids(store')
       /\ (query' # query \/ status' # status \/ search' # search) => store' = store]_vars

\* the seeding and an ETL call have both written, and the status and the
\* search were answered from the table
C27_Witness ==
    /\ boot.wrote >= 1 /\ hist[1].upserts >= 1 /\ Cardinality(store) >= 3
    /\ status.pc = "done" /\ status.http = 200
    /\ search.pc = "done" /\ search.http = 200

====
